---- MODULE Spec2Model ----
(***************************************************************************)
(* Model of the dump actor of meilisearch-http                             *)
(* (src/meilisearch-http/src/index_controller/dump_actor/actor.rs).        *)
(*                                                                         *)
(* The actor owns a try-lock (`lock`) and a registry (`dump_infos`).  Its  *)
(* `run` loop pulls DumpMsg values from an mpsc inbox and runs up to       *)
(* CONCURRENT_DUMP_MSG handlers concurrently inside ONE task               *)
(* (for_each_concurrent): handlers interleave only at their .await points, *)
(* so every action below is one await-free segment of a handler.           *)
(* A panic inside a handler unwinds the `run` future: the actor is dead.   *)
(*                                                                         *)
(* Requests are numbered; request r carries its own oneshot                *)
(* reply slot, modelled by replies[r] (what the caller received) and       *)
(* abandoned[r] (the caller dropped the receiving end).                    *)
(* The timestamps started_at / finished_at of a DumpInfo are not modelled. *)
(***************************************************************************)
EXTENDS Naturals, Integers, Sequences, FiniteSets, TLC

\* ---------------------------------------------------------------- bounds
MaxReq == 3            \* number of requests the producers send
MaxNow == 2            \* last clock reading, in ticks
TicksPerMilli == 2     \* clock ticks per millisecond (sub-millisecond time)
MaxBurst == 11         \* number of requests in a burst (SpecK)

\* ------------------------------------------------------ program constants
CONCURRENT_DUMP_MSG == 10

UnexpectedError == "Unexpected error while performing dump."

\* ------------------------------------------------------------ value sets
Reqs == 1..(IF MaxReq > MaxBurst THEN MaxReq ELSE MaxBurst)
Times == 0..MaxNow

\* generate_uid: the wall clock formatted with "%Y%m%d-%H%M%S%3f", i.e. the
\* time truncated to whole milliseconds (an injective rendering of that
\* millisecond count, represented by the count itself).
generate_uid(t) == t \div TicksPerMilli

Uids == { generate_uid(t) : t \in Times }

\* an identifier no dump was ever given ("nonexistent")
NoSuchUid == -1

QueryUids == Uids \cup {NoSuchUid}

\* the typed failures a dump task can return, and their Display text
DumpTaskErrors == {"DiskFull"}

to_string(e) == IF e = "DiskFull" THEN "disk full" ELSE "dump error"

\* Option<String>: None is <<>>, Some(s) is <<s>>
None == <<>>

Some(s) == <<s>>

\* DumpInfo::new(uid, status)
DumpInfoNew(uid, status) == [uid |-> uid, status |-> status, error |-> None]

\* DumpInfo::done
done(info) == [info EXCEPT !.status = "Done"]

\* DumpInfo::with_error
with_error(info, msg) == [info EXCEPT !.status = "Failed", !.error = Some(msg)]

\* DumpResult<DumpInfo> values, all of one shape
Ok(info) == [kind |-> "Ok", uid |-> info.uid, status |-> info.status, error |-> info.error]

DumpAlreadyRunning == [kind |-> "DumpAlreadyRunning", uid |-> NoSuchUid, status |-> "", error |-> None]

DumpDoesNotExist(uid) == [kind |-> "DumpDoesNotExist", uid |-> uid, status |-> "", error |-> None]

\* JoinHandle outcomes of the spawned DumpTask: Ok(Ok(())), Ok(Err(e)), Err(_)
TaskOk == <<"Ok">>

TaskErr(e) == <<"Err", e>>

TaskPanic == <<"Panic">>

TaskOutcomes == {TaskOk, TaskPanic} \cup { TaskErr(e) : e \in DumpTaskErrors }

VARIABLES
  now,         \* last reading of the wall clock (Utc::now), in ticks
  msgs,        \* msgs[r]: the DumpMsg of request r, or NoMsg before it is sent
  inbox,       \* the mpsc channel: request numbers in FIFO order
  closed,      \* all producers of the channel were dropped
  actor,       \* "running", "stopped" (run returned) or "panicked"
  pc,          \* pc[r]: position of request r / of its handler
  uid,         \* uid[r]: local `uid` of handle_create_dump for request r
  task,        \* task[r]: the DumpTask spawned for r: <<>>, <<"Running">>, or an outcome
  lock,        \* the futures Mutex: 0 when free, else the request holding _lock
  dump_infos,  \* the registry: a function from identifiers to DumpInfo
  abandoned,   \* abandoned[r]: the caller dropped the oneshot receiver
  replies      \* replies[r]: the values delivered on r's reply slot

vars == <<now, msgs, inbox, closed, actor, pc, uid, task, lock, dump_infos, abandoned, replies>>

NoMsg == [kind |-> "None", uid |-> NoSuchUid]

CreateDumpMsg == [kind |-> "CreateDump", uid |-> NoSuchUid]

DumpInfoMsg(u) == [kind |-> "DumpInfo", uid |-> u]

NoTask == <<>>

TaskRunning == <<"Running">>

\* a faulty count that leaves out the handler awaiting its dump task
InFlightDetached == { r \in Reqs : pc[r] \in {"start", "insert"} }

\* handlers that for_each_concurrent currently holds
InFlight == { r \in Reqs : pc[r] \in {"start", "insert", "task"} }

\* a faulty insert that forgets every other key
insert_replacing(d, k, v) == [u \in {k} |-> v]

\* a faulty insert that stores nothing
insert_lost(d, k, v) == d

\* HashMap::insert
insert(d, k, v) == [u \in DOMAIN d \cup {k} |-> IF u = k THEN v ELSE d[u]]

\* a faulty gate that lets every caller in
try_lock_always(l) == TRUE

\* Mutex::try_lock succeeds iff the mutex is free
try_lock(l) == l = 0

\* a faulty lookup whose error does not carry the queried identifier
handle_dump_info_anon(d, u) == IF u \in DOMAIN d THEN Ok(d[u]) ELSE DumpDoesNotExist(NoSuchUid)

\* handle_dump_info: look the identifier up in the registry
handle_dump_info(d, u) == IF u \in DOMAIN d THEN Ok(d[u]) ELSE DumpDoesNotExist(u)

\* oneshot::Sender::send: delivers unless the receiver was dropped
send_ok(r) == ~abandoned[r]

Delivered(r, v) == [replies EXCEPT ![r] = Append(@, v)]

Init ==
  /\ now = 0
  /\ msgs = [r \in Reqs |-> NoMsg]
  /\ inbox = <<>>
  /\ closed = FALSE
  /\ actor = "running"
  /\ pc = [r \in Reqs |-> "unsent"]
  /\ uid = [r \in Reqs |-> NoSuchUid]
  /\ task = [r \in Reqs |-> NoTask]
  /\ lock = 0
  /\ dump_infos = <<>>
  /\ abandoned = [r \in Reqs |-> FALSE]
  /\ replies = [r \in Reqs |-> <<>>]

\* a producer sends the next request into the channel
SendMsg(r, m) ==
  /\ actor = "running"
  /\ ~closed
  /\ pc[r] = "unsent"
  /\ \A q \in Reqs : q < r => pc[q] # "unsent"
  /\ msgs' = [msgs EXCEPT ![r] = m]
  /\ inbox' = Append(inbox, r)
  /\ pc' = [pc EXCEPT ![r] = "inbox"]
  /\ UNCHANGED <<now, closed, actor, uid, task, lock, dump_infos, abandoned, replies>>

\* the caller of r drops its receiver before any reply arrived
Abandon(r) ==
  /\ actor = "running"
  /\ pc[r] \in {"inbox", "start", "insert"}
  /\ ~abandoned[r]
  /\ replies[r] = <<>>
  /\ abandoned' = [abandoned EXCEPT ![r] = TRUE]
  /\ UNCHANGED <<now, msgs, inbox, closed, actor, pc, uid, task, lock, dump_infos, replies>>

\* every producer handle is dropped
CloseChannel ==
  /\ actor = "running"
  /\ ~closed
  /\ closed' = TRUE
  /\ UNCHANGED <<now, msgs, inbox, actor, pc, uid, task, lock, dump_infos, abandoned, replies>>

\* run: the stream yields the next message and for_each_concurrent starts
\* its handler, provided fewer than CONCURRENT_DUMP_MSG handlers are in flight
Recv ==
  /\ actor = "running"
  /\ inbox # <<>>
  /\ Cardinality(InFlight) < CONCURRENT_DUMP_MSG
  /\ inbox' = Tail(inbox)
  /\ pc' = [pc EXCEPT ![Head(inbox)] = "start"]
  /\ UNCHANGED <<now, msgs, closed, actor, uid, task, lock, dump_infos, abandoned, replies>>

\* run: recv() returned None and every handler finished: run returns
Stop ==
  /\ actor = "running"
  /\ closed
  /\ inbox = <<>>
  /\ InFlight = {}
  /\ actor' = "stopped"
  /\ UNCHANGED <<now, msgs, inbox, closed, pc, uid, task, lock, dump_infos, abandoned, replies>>

\* a faulty accept path that drops the guard at once (`let _ = ..`)
AcceptNoHold(r) ==
  /\ lock' = lock
  /\ pc' = [pc EXCEPT ![r] = "insert"]
  /\ UNCHANGED <<actor, replies, dump_infos, task>>

\* handle_create_dump, `Some(lock) => lock`: the handler now holds _lock and
\* goes on to dump_infos.write().await
Accept(r) ==
  /\ lock' = r
  /\ pc' = [pc EXCEPT ![r] = "insert"]
  /\ UNCHANGED <<actor, replies, dump_infos, task>>

\* a faulty reject path that waits for the lock instead of replying
RejectQueued(r) ==
  UNCHANGED <<actor, replies, pc, lock, dump_infos, task>>

\* a faulty reject path that registers the record before replying
RejectRegistered(r) ==
  /\ dump_infos' = insert(dump_infos, uid'[r], DumpInfoNew(uid'[r], "InProgress"))
  /\ IF send_ok(r)
       THEN /\ replies' = Delivered(r, DumpAlreadyRunning)
            /\ pc' = [pc EXCEPT ![r] = "done"]
            /\ UNCHANGED actor
       ELSE /\ actor' = "panicked"
            /\ UNCHANGED <<replies, pc>>
  /\ UNCHANGED <<lock, task>>

\* handle_create_dump, `None => ..`: reply DumpAlreadyRunning and return;
\* expect panics when the caller dropped its receiver
Reject(r) ==
  /\ IF send_ok(r)
       THEN /\ replies' = Delivered(r, DumpAlreadyRunning)
            /\ pc' = [pc EXCEPT ![r] = "done"]
            /\ UNCHANGED actor
       ELSE /\ actor' = "panicked"
            /\ UNCHANGED <<replies, pc>>
  /\ UNCHANGED <<lock, dump_infos, task>>

\* handle_create_dump, up to the first .await: read the clock for the
\* identifier, then try the lock
CreateDumpTryLock(r) ==
  /\ actor = "running"
  /\ pc[r] = "start"
  /\ msgs[r].kind = "CreateDump"
  /\ \E t \in Times :
       /\ t >= now
       /\ now' = t
       /\ uid' = [uid EXCEPT ![r] = generate_uid(t)]
  /\ IF try_lock(lock) THEN Accept(r) ELSE Reject(r)
  /\ UNCHANGED <<msgs, inbox, closed, abandoned>>

\* a faulty accept phase that spawns the task before it replies
CreateDumpInsertSpawnFirst(r) ==
  /\ actor = "running"
  /\ pc[r] = "insert"
  /\ dump_infos' = insert(dump_infos, uid[r], DumpInfoNew(uid[r], "InProgress"))
  /\ task' = [task EXCEPT ![r] = TaskRunning]
  /\ IF send_ok(r)
       THEN /\ replies' = Delivered(r, Ok(DumpInfoNew(uid[r], "InProgress")))
            /\ pc' = [pc EXCEPT ![r] = "task"]
            /\ UNCHANGED actor
       ELSE /\ actor' = "panicked"
            /\ UNCHANGED <<replies, pc>>
  /\ UNCHANGED <<now, msgs, inbox, closed, uid, lock, abandoned>>

\* handle_create_dump after dump_infos.write().await: insert the InProgress
\* record, reply Ok(info) (expect panics if the caller is gone), spawn the task
CreateDumpInsert(r) ==
  /\ actor = "running"
  /\ pc[r] = "insert"
  /\ dump_infos' = insert(dump_infos, uid[r], DumpInfoNew(uid[r], "InProgress"))
  /\ IF send_ok(r)
       THEN /\ replies' = Delivered(r, Ok(DumpInfoNew(uid[r], "InProgress")))
            /\ task' = [task EXCEPT ![r] = TaskRunning]
            /\ pc' = [pc EXCEPT ![r] = "task"]
            /\ UNCHANGED actor
       ELSE /\ actor' = "panicked"
            /\ UNCHANGED <<replies, task, pc>>
  /\ UNCHANGED <<now, msgs, inbox, closed, uid, lock, abandoned>>

\* the spawned DumpTask returns a result or panics
TaskRun(r, o) ==
  /\ task[r] = TaskRunning
  /\ task' = [task EXCEPT ![r] = o]
  /\ UNCHANGED <<now, msgs, inbox, closed, actor, pc, uid, lock, dump_infos, abandoned, replies>>

\* a faulty match that records a typed failure under the generic message
ResolvedErrGeneric(info, o) ==
  IF o = TaskOk THEN done(info)
  ELSE with_error(info, UnexpectedError)

\* a faulty match that forgets to mark a successful dump as done
ResolvedOkPending(info, o) ==
  IF o = TaskOk THEN info
  ELSE IF o = TaskPanic THEN with_error(info, UnexpectedError)
  ELSE with_error(info, to_string(o[2]))

\* a faulty match that leaves the record of a panicked task untouched
ResolvedPanicIgnored(info, o) ==
  IF o = TaskOk THEN done(info)
  ELSE IF o = TaskPanic THEN info
  ELSE with_error(info, to_string(o[2]))

\* the record after `match task_result`
Resolved(info, o) ==
  IF o = TaskOk THEN done(info)
  ELSE IF o = TaskPanic THEN with_error(info, UnexpectedError)
  ELSE with_error(info, to_string(o[2]))

\* handle_create_dump after the JoinHandle resolved: take the write lock,
\* update the record, return (dropping _lock)
CreateDumpFinish(r) ==
  /\ actor = "running"
  /\ pc[r] = "task"
  /\ task[r] \in TaskOutcomes
  /\ IF uid[r] \in DOMAIN dump_infos
       THEN /\ dump_infos' = [dump_infos EXCEPT ![uid[r]] = Resolved(@, task[r])]
            /\ lock' = 0
            /\ pc' = [pc EXCEPT ![r] = "done"]
            /\ UNCHANGED actor
       ELSE /\ actor' = "panicked"
            /\ UNCHANGED <<dump_infos, lock, pc>>
  /\ UNCHANGED <<now, msgs, inbox, closed, uid, task, abandoned, replies>>

\* a faulty query handler that waits until no dump holds the gate
DumpInfoHandleGated(r) ==
  /\ actor = "running"
  /\ pc[r] = "start"
  /\ msgs[r].kind = "DumpInfo"
  /\ lock = 0
  /\ replies' = IF send_ok(r)
                  THEN Delivered(r, handle_dump_info(dump_infos, msgs[r].uid))
                  ELSE replies
  /\ pc' = [pc EXCEPT ![r] = "done"]
  /\ UNCHANGED <<now, msgs, inbox, closed, actor, uid, task, lock, dump_infos, abandoned>>

\* handle_message, DumpInfo arm: look up and `let _ = ret.send(..)`
DumpInfoHandle(r) ==
  /\ actor = "running"
  /\ pc[r] = "start"
  /\ msgs[r].kind = "DumpInfo"
  /\ replies' = IF send_ok(r)
                  THEN Delivered(r, handle_dump_info(dump_infos, msgs[r].uid))
                  ELSE replies
  /\ pc' = [pc EXCEPT ![r] = "done"]
  /\ UNCHANGED <<now, msgs, inbox, closed, actor, uid, task, lock, dump_infos, abandoned>>

Next ==
  \/ \E r \in 1..MaxReq : SendMsg(r, CreateDumpMsg)
  \/ \E r \in 1..MaxReq, u \in QueryUids : SendMsg(r, DumpInfoMsg(u))
  \/ \E r \in Reqs : Abandon(r)
  \/ CloseChannel
  \/ Recv
  \/ Stop
  \/ \E r \in Reqs : CreateDumpTryLock(r)
  \/ \E r \in Reqs : CreateDumpInsert(r)
  \/ \E r \in Reqs, o \in TaskOutcomes : TaskRun(r, o)
  \/ \E r \in Reqs : CreateDumpFinish(r)
  \/ \E r \in Reqs : DumpInfoHandle(r)

Spec == Init /\ [][Next]_vars

\* a burst: MaxBurst requests, the first of which may be a CreateDump (whose
\* caller may give up) and the others status queries for an unknown identifier
NextK ==
  \/ SendMsg(1, CreateDumpMsg)
  \/ Abandon(1)
  \/ \E r \in 1..MaxBurst : SendMsg(r, DumpInfoMsg(NoSuchUid))
  \/ Recv
  \/ \E r \in Reqs : CreateDumpTryLock(r)
  \/ \E r \in Reqs : CreateDumpInsert(r)
  \/ \E r \in Reqs, o \in TaskOutcomes : TaskRun(r, o)
  \/ \E r \in Reqs : CreateDumpFinish(r)
  \/ \E r \in Reqs : DumpInfoHandle(r)

SpecK == Init /\ [][NextK]_vars

\* the tokio scheduler polls the actor task and the spawned dump task again
\* and again: every enabled handler segment and every running task proceeds
Fairness ==
  /\ WF_vars(Recv)
  /\ WF_vars(Stop)
  /\ \A r \in Reqs :
       /\ WF_vars(CreateDumpTryLock(r))
       /\ WF_vars(CreateDumpInsert(r))
       /\ WF_vars(\E o \in TaskOutcomes : TaskRun(r, o))
       /\ WF_vars(CreateDumpFinish(r))
       /\ WF_vars(DumpInfoHandle(r))

FairSpec == Spec /\ Fairness

\* ------------------------------------------------------------ properties
InProgressUids == { u \in DOMAIN dump_infos : dump_infos[u].status = "InProgress" }

IsCreate(r) == msgs[r].kind = "CreateDump"

IsQuery(r) == msgs[r].kind = "DumpInfo"

\* r's caller received Ok(info) from a CreateDump
Accepted(r) == IsCreate(r) /\ replies[r] # <<>> /\ replies[r][1].kind = "Ok"

\* C1: in every reachable state the registry holds at most one record whose
\* state is InProgress.
C1_AtMostOneInProgress == Cardinality(InProgressUids) <= 1

\* two dumps were accepted one after the other and a third was turned away
\* while the second was in progress
C1_Witness ==
  /\ Cardinality(DOMAIN dump_infos) = 2
  /\ Cardinality(InProgressUids) = 1
  /\ \E r \in Reqs : replies[r] = <<DumpAlreadyRunning>>

\* C2: a CreateDump handled while an earlier accepted CreateDump still holds
\* the gate and its task has not completed is answered DumpAlreadyRunning,
\* never with a record, and its handler does not wait for the gate.
C2_SecondCreateRejected ==
  [][\A r \in Reqs :
       (/\ CreateDumpTryLock(r)
        /\ \E q \in Reqs \ {r} :
             /\ lock = q
             /\ pc[q] \in {"insert", "task"}
             /\ task[q] \notin TaskOutcomes)
       => /\ lock' = lock
          /\ pc'[r] # "insert"
          /\ replies'[r] \in {<<>>, <<DumpAlreadyRunning>>}
          /\ ~abandoned[r] => (replies'[r] = <<DumpAlreadyRunning>> /\ pc'[r] = "done")]_vars

\* the first caller holds an InProgress record whose task still runs, the
\* second caller holds DumpAlreadyRunning
C2_Witness ==
  \E q, r \in Reqs :
    /\ q # r
    /\ Accepted(q)
    /\ task[q] = TaskRunning
    /\ replies[r] = <<DumpAlreadyRunning>>
    /\ pc[r] = "done"

\* C3: for every identifier the registry's states form a prefix of
\* [InProgress, Done] or [InProgress, Failed]: a record is first stored as
\* InProgress, never leaves Done or Failed and never re-enters InProgress.
C3_MonotonicState ==
  [][\A u \in Uids :
       /\ (u \notin DOMAIN dump_infos /\ u \in DOMAIN dump_infos')
            => dump_infos'[u].status = "InProgress"
       /\ u \in DOMAIN dump_infos
            => /\ u \in DOMAIN dump_infos'
               /\ dump_infos[u].status = "InProgress"
                    => dump_infos'[u].status \in {"InProgress", "Done", "Failed"}
               /\ dump_infos[u].status \in {"Done", "Failed"}
                    => dump_infos'[u].status = dump_infos[u].status]_vars

\* C4: under fair scheduling and terminating tasks, every record that is
\* InProgress eventually is Done or Failed.
C4_NoOrphanedRecord ==
  \A u \in Uids :
    (u \in DOMAIN dump_infos /\ dump_infos[u].status = "InProgress")
      ~> (u \in DOMAIN dump_infos /\ dump_infos[u].status \in {"Done", "Failed"})

\* C5: when the dump task panicked, the handler sets the record to Failed
\* with the generic message, the actor keeps running and the gate is free
\* again for the next CreateDump.
C5_PanicContained ==
  [][\A r \in Reqs :
       (CreateDumpFinish(r) /\ task[r] = TaskPanic)
       => /\ uid[r] \in DOMAIN dump_infos'
          /\ dump_infos'[uid[r]].status = "Failed"
          /\ dump_infos'[uid[r]].error = Some(UnexpectedError)
          /\ actor' = "running"
          /\ pc'[r] = "done"
          /\ lock' = 0]_vars

\* after a dump's task panicked, a status query was answered with the Failed
\* record and a later CreateDump was accepted
C5_Witness ==
  \E p, q, r \in Reqs :
    /\ task[p] = TaskPanic
    /\ pc[p] = "done"
    /\ IsQuery(q)
    /\ replies[q] # <<>>
    /\ replies[q][1].status = "Failed"
    /\ replies[q][1].error = Some(UnexpectedError)
    /\ Accepted(r)
    /\ lock = r
    /\ uid[r] # uid[p]
    /\ actor = "running"

\* C6: once a CreateDump caller holds Ok(u) the registry has a record under
\* u, and every QueryStatus(u) handled from then on is answered Ok.
C6_ReplyImpliesRecord ==
  /\ [](\A r \in Reqs : Accepted(r) => replies[r][1].uid \in DOMAIN dump_infos)
  /\ [][\A q \in Reqs :
          (/\ DumpInfoHandle(q)
           /\ ~abandoned[q]
           /\ \E r \in Reqs : Accepted(r) /\ replies[r][1].uid = msgs[q].uid)
          => (replies'[q] # <<>> /\ replies'[q][1].kind = "Ok")]_vars

\* a caller polled the identifier it got from CreateDump and got the record
C6_Witness ==
  \E r, q \in Reqs :
    /\ Accepted(r)
    /\ IsQuery(q)
    /\ msgs[q].uid = replies[r][1].uid
    /\ replies[q] # <<>>
    /\ replies[q][1].kind = "Ok"
    /\ replies[q][1].uid = msgs[q].uid

\* C7: QueryStatus(u) replies Ok with a copy of the record stored under u
\* when u is a key of the registry, and DumpDoesNotExist(u) otherwise.
C7_QueryStatusResult ==
  [][\A q \in Reqs :
       (DumpInfoHandle(q) /\ ~abandoned[q])
       => /\ Len(replies'[q]) = 1
          /\ IF msgs[q].uid \in DOMAIN dump_infos
               THEN /\ replies'[q][1].kind = "Ok"
                    /\ replies'[q][1].uid = dump_infos[msgs[q].uid].uid
                    /\ replies'[q][1].status = dump_infos[msgs[q].uid].status
                    /\ replies'[q][1].error = dump_infos[msgs[q].uid].error
               ELSE /\ replies'[q][1].kind = "DumpDoesNotExist"
                    /\ replies'[q][1].uid = msgs[q].uid]_vars

\* one query found a finished record, another asked for a timestamp-shaped
\* identifier that no dump was given
C7_Witness ==
  \E q1, q2 \in Reqs :
    /\ IsQuery(q1) /\ replies[q1] # <<>>
    /\ replies[q1][1].kind = "Ok"
    /\ replies[q1][1].status = "Done"
    /\ IsQuery(q2) /\ replies[q2] # <<>>
    /\ replies[q2][1].kind = "DumpDoesNotExist"
    /\ msgs[q2].uid \in Uids

\* C8: a CreateDump that finds the gate held leaves the registry unchanged,
\* launches no task, leaves the gate with its holder, and replies
\* DumpAlreadyRunning.
C8_RejectLeavesRegistry ==
  [][\A r \in Reqs :
       (CreateDumpTryLock(r) /\ lock # 0)
       => /\ dump_infos' = dump_infos
          /\ task' = task
          /\ lock' = lock
          /\ ~abandoned[r] => replies'[r] = <<DumpAlreadyRunning>>]_vars

\* a rejected CreateDump generated an identifier that the registry, which
\* holds the accepted dump, does not contain
C8_Witness ==
  \E r \in Reqs :
    /\ IsCreate(r)
    /\ replies[r] = <<DumpAlreadyRunning>>
    /\ uid[r] \in Uids
    /\ uid[r] \notin DOMAIN dump_infos
    /\ Cardinality(DOMAIN dump_infos) = 1

\* C9: every request pulled from the channel whose caller still holds the
\* receiving end gets exactly one reply: never two, and not zero once its
\* handler has returned or the actor no longer runs.
C9_ExactlyOneReply ==
  \A r \in Reqs :
    /\ Len(replies[r]) <= 1
    /\ (/\ pc[r] \notin {"unsent", "inbox"}
        /\ ~abandoned[r]
        /\ (pc[r] = "done" \/ actor # "running"))
       => Len(replies[r]) = 1

\* C10: a reply to a caller that abandoned its slot is dropped silently, for
\* CreateDump (accepted or rejected) and QueryStatus alike: the actor keeps
\* running and nothing is delivered.
C10_AbandonedReplyNonFatal ==
  [][\A r \in Reqs :
       (/\ abandoned[r]
        /\ \/ CreateDumpTryLock(r) /\ ~try_lock(lock)
           \/ CreateDumpInsert(r)
           \/ DumpInfoHandle(r))
       => /\ actor' = "running"
          /\ replies' = replies
          /\ pc'[r] # pc[r]]_vars

\* requests whose handler for_each_concurrent holds, other than r
OthersInFlight(r) == { q \in Reqs \ {r} : pc[q] \in {"start", "insert", "task"} }

\* C11: the completion of an accepted dump sets its record to Done with no
\* error message when the task succeeded and to Failed with the failure's
\* description when it returned a typed failure, and changes no other record.
C11_OutcomeDeterminesRecord ==
  [][\A r \in Reqs :
       (CreateDumpFinish(r) /\ task[r] # TaskPanic)
       => /\ DOMAIN dump_infos' = DOMAIN dump_infos
          /\ \A u \in DOMAIN dump_infos : u # uid[r] => dump_infos'[u] = dump_infos[u]
          /\ dump_infos'[uid[r]].uid = uid[r]
          /\ task[r] = TaskOk
               => /\ dump_infos'[uid[r]].status = "Done"
                  /\ dump_infos'[uid[r]].error = None
          /\ task[r] = TaskErr("DiskFull")
               => /\ dump_infos'[uid[r]].status = "Failed"
                  /\ dump_infos'[uid[r]].error = Some("disk full")]_vars

\* one dump ended Done without a message, another Failed with "disk full"
C11_Witness ==
  \E u, v \in DOMAIN dump_infos :
    /\ dump_infos[u].status = "Done"
    /\ dump_infos[u].error = None
    /\ dump_infos[v].status = "Failed"
    /\ dump_infos[v].error = Some("disk full")

\* C12: at most CONCURRENT_DUMP_MSG handlers are in flight; while that many
\* are active the loop pulls no request; and every request in the channel is
\* eventually dispatched to a handler.
C12_BoundedDispatchNoDrop ==
  /\ [](Cardinality({ r \in Reqs : pc[r] \in {"start", "insert", "task"} }) <= CONCURRENT_DUMP_MSG)
  /\ [][(/\ Cardinality({ r \in Reqs : pc[r] \in {"start", "insert", "task"} }) = CONCURRENT_DUMP_MSG
         /\ inbox # <<>>)
        => (inbox' # <<>> /\ Head(inbox') = Head(inbox))]_vars
  /\ \A r \in Reqs : (pc[r] = "inbox") ~> (pc[r] # "inbox")

\* C13: the actor stops only when the channel is closed, and once the channel
\* is closed the loop exits and the actor reaches the stopped state.
C13_StopsWhenClosed ==
  /\ [](actor = "stopped" => closed)
  /\ closed ~> (actor = "stopped")

\* C14 (as claimed): the gate hold of an accepted CreateDump does not span
\* the dump task: the gate is not held by the handler while its task runs.
C14_GateFreeDuringTask ==
  \A r \in Reqs : task[r] = TaskRunning => lock # r

\* C14 (amended): the handler of an accepted CreateDump holds the gate from
\* its acceptance until it returns, that is across the whole dump task and
\* until the terminal status has been written.
C14_GateSpansTask ==
  /\ [](\A r \in Reqs : (actor = "running" /\ pc[r] \in {"insert", "task"}) => lock = r)
  /\ [][\A r \in Reqs :
          (lock = r /\ lock' # r)
          => /\ task[r] \in TaskOutcomes
             /\ pc'[r] = "done"
             /\ dump_infos'[uid[r]].status \in {"Done", "Failed"}]_vars

\* the task has resolved and its handler, not yet resumed, still holds the gate
C14_Witness ==
  \E r \in Reqs :
    /\ task[r] \in TaskOutcomes
    /\ pc[r] = "task"
    /\ lock = r
    /\ actor = "running"

\* C15 (as claimed): while an accepted dump's task is running its creation
\* handler has already returned, so it takes none of the handler slots.
C15_HandlerReturnedBeforeTask ==
  \A r \in Reqs : task[r] = TaskRunning => pc[r] = "done"

\* C15 (amended): the creation handler awaits the task itself and keeps its
\* handler slot until the task resolved, so while a dump's task is running at
\* most CONCURRENT_DUMP_MSG - 1 other requests are in flight.
C15_TaskHoldsHandlerSlot ==
  \A r \in Reqs :
    task[r] = TaskRunning
      => /\ pc[r] = "task"
         /\ Cardinality(OthersInFlight(r)) <= CONCURRENT_DUMP_MSG - 1

\* a dump's task runs, the other handler slots are all taken and a further
\* request waits in the channel
C15_Witness ==
  \E r \in Reqs :
    /\ task[r] = TaskRunning
    /\ Cardinality(OthersInFlight(r)) = CONCURRENT_DUMP_MSG - 1
    /\ inbox # <<>>

\* C16: the registry insert of an accepted CreateDump never targets a key
\* that is already present.
C16_InsertTargetsFreshKey ==
  [][\A r \in Reqs : CreateDumpInsert(r) => uid[r] \notin DOMAIN dump_infos]_vars

\* C17: a QueryStatus can be handled whatever the gate and the dump task do,
\* and one handled while the dump it asks about is running is answered at
\* once with the InProgress record, touching neither the gate nor the task.
C17_QueryNeverWaits ==
  /\ [](\A q \in Reqs :
          (actor = "running" /\ pc[q] = "start" /\ IsQuery(q)) => ENABLED DumpInfoHandle(q))
  /\ [][\A q \in Reqs :
          (/\ DumpInfoHandle(q)
           /\ ~abandoned[q]
           /\ \E r \in Reqs : lock = r /\ task[r] = TaskRunning /\ uid[r] = msgs[q].uid)
          => /\ replies'[q] # <<>>
             /\ replies'[q][1].kind = "Ok"
             /\ replies'[q][1].status = "InProgress"
             /\ pc'[q] = "done"
             /\ lock' = lock
             /\ task' = task]_vars

\* a caller holds an InProgress answer to its query while the dump's task
\* still runs under the gate
C17_Witness ==
  \E q, r \in Reqs :
    /\ IsQuery(q)
    /\ replies[q] # <<>>
    /\ replies[q][1].status = "InProgress"
    /\ task[r] = TaskRunning
    /\ lock = r
    /\ uid[r] = msgs[q].uid

\* C18: no step removes a key from the registry, the identifier of a handler
\* that awaits its task is always a key, and the completion never takes the
\* fatal branch.
C18_RecordNeverDeleted ==
  /\ [][DOMAIN dump_infos \subseteq DOMAIN dump_infos']_vars
  /\ [](\A r \in Reqs : pc[r] = "task" => uid[r] \in DOMAIN dump_infos)
  /\ [][\A r \in Reqs : CreateDumpFinish(r) => (actor' = "running" /\ pc'[r] = "done")]_vars

\* a second dump completed while the record of the first is still there
C18_Witness ==
  \E r \in Reqs :
    /\ pc[r] = "done"
    /\ task[r] \in TaskOutcomes
    /\ Cardinality(DOMAIN dump_infos) = 2
    /\ InProgressUids = {}

\* C19: whenever the dump task of r exists, the caller of r already holds the
\* Ok reply with the InProgress record; that reply is sent while no task
\* exists yet and never changes afterwards, whatever the task's outcome.
C19_ReplyBeforeTask ==
  /\ [](\A r \in Reqs :
          task[r] # NoTask => replies[r] = <<Ok(DumpInfoNew(uid[r], "InProgress"))>>)
  /\ [][\A r \in Reqs :
          /\ replies[r] # <<>> => replies'[r] = replies[r]
          /\ (IsCreate(r) /\ replies[r] = <<>> /\ replies'[r] # <<>> /\ replies'[r][1].kind = "Ok")
               => (task[r] = NoTask /\ replies'[r][1].status = "InProgress")]_vars

\* the task panicked and the record is Failed, yet the caller's reply is the
\* InProgress record it got at acceptance
C19_Witness ==
  \E r \in Reqs :
    /\ task[r] = TaskPanic
    /\ pc[r] = "done"
    /\ dump_infos[uid[r]].status = "Failed"
    /\ replies[r] = <<Ok(DumpInfoNew(uid[r], "InProgress"))>>

\* C20: while the actor is running, whenever the gate is free no record of
\* the registry is InProgress.
C20_FreeGateNoInProgress ==
  (actor = "running" /\ lock = 0) => InProgressUids = {}

\* a newly accepted CreateDump, about to insert, finds an earlier record and
\* none InProgress
C20_Witness ==
  \E r \in Reqs :
    /\ pc[r] = "insert"
    /\ lock = r
    /\ actor = "running"
    /\ DOMAIN dump_infos # {}
    /\ InProgressUids = {}

TypeOK ==
  /\ now \in Times
  /\ actor \in {"running", "stopped", "panicked"}
  /\ lock \in {0} \cup Reqs
  /\ DOMAIN dump_infos \subseteq Uids
  /\ \A r \in Reqs : Len(replies[r]) <= 1
====
